---- MODULE Spec2Model ----
(***************************************************************************)
(* Membership reconciliation of the slack_conversation_members resource    *)
(* (src/resource_conversation_members.go, lines 431-807: the version with  *)
(* the "authoritative" attribute).  The remote conversation is a set of    *)
(* user ids; the four handlers Create / Read / Update / Delete are cut at  *)
(* every remote mutation call (invite, join, kick, leave), so that the     *)
(* intermediate memberships of a pass are states of the model.             *)
(***************************************************************************)
EXTENDS Integers, Sequences, FiniteSets, TLC

\* ------------------------------------------------------------------ bounds
\* longest "members" list the caller writes
MaxLen == 2
\* number of handler invocations by the host in one behaviour
MaxPasses == 2
\* longest member expression, in pieces, handed to getUserInfo on its own
MaxPieces == 4

\* --------------------------------------------------------- remote directory
VARIABLE
    removed         \* remote: the user Removable has left the workspace

\* every user the workspace has had (slack.User: ID, Name, Profile.Email)
AllUsers ==
    { [ID |-> "U1", Name |-> "alice", Email |-> "a@x"],
      [ID |-> "U2", Name |-> "bob",   Email |-> "b@x"],
      [ID |-> "U3", Name |-> "owner", Email |-> "o@x"] }

\* the one user that may leave the workspace between two remote calls
Removable == "U1"

\* The workspace directory (users.info / users.lookupByEmail).
Directory == IF removed THEN { u \in AllUsers : u.ID # Removable } ELSE AllUsers

\* u.Name of a user the handler has resolved
NameOf(id) == (CHOOSE u \in AllUsers : u.ID = id).Name

UserIds == { u.ID : u \in Directory }

\* the user the API token belongs to
TokenOwner == "U3"

\* sort.Strings compares byte-wise: "U1" < "U2" < "U3"
Rank(id) == CASE id = "U1" -> 1 [] id = "U2" -> 2 [] id = "U3" -> 3 [] OTHER -> 9

\* ------------------------------------------------------ member expressions
\* A member expression is a string such as "id:U1"; it is kept as the
\* sequence of its pieces, the separator ":" being a piece of its own.
Expr(kind, ident) == <<kind, ":", ident>>

\* strings.SplitAfter(s, ":"): the pieces of s, each ending with its ":".
RECURSIVE SplitAfter(_, _)
SplitAfter(s, cur) ==
    IF s = <<>> THEN <<cur>>
    ELSE IF Head(s) = ":" THEN <<Append(cur, ":")>> \o SplitAfter(Tail(s), <<>>)
    ELSE SplitAfter(Tail(s), Append(cur, Head(s)))

\* strings.Contains(s, kind ++ ":")
Contains(s, kind) ==
    \E i \in 1..(Len(s) - 1) : s[i] = kind /\ s[i + 1] = ":"

\* api.GetUserInfo(id): users.info
GetUserInfo(ident) ==
    IF \E u \in Directory : <<u.ID>> = ident
    THEN [err |-> "nil", ID |-> (CHOOSE u \in Directory : <<u.ID>> = ident).ID]
    ELSE [err |-> "user_not_found", ID |-> "none"]

\* getUserByEmail: users.lookupByEmail
getUserByEmail(ident) ==
    IF \E u \in Directory : <<u.Email>> = ident
    THEN [err |-> "nil", ID |-> (CHOOSE u \in Directory : <<u.Email>> = ident).ID]
    ELSE [err |-> "users_not_found", ID |-> "none"]

\* getUserInfo: resolves a member expression to a user.  Indexing [1] of the
\* split of an expression without separator is an index out of range.
getUserInfo(userExpression) ==
    LET parts == SplitAfter(userExpression, <<>>) IN
    IF Len(parts) < 2 THEN [err |-> "panic", ID |-> "none"]
    ELSE IF Contains(userExpression, "email") THEN getUserByEmail(parts[2])
    ELSE IF Contains(userExpression, "id") THEN GetUserInfo(parts[2])
    ELSE [err |-> "unsupported", ID |-> "none"]

\* the expressions the caller writes in "members"
\* (U2 is never named by the caller: it is a member the resource does not manage)
Expressions ==
    { Expr("id", "U1"), Expr("email", "a@x"), Expr("id", "U3"), Expr("bot", "b1") }

\* the "members" lists of the configuration (schema: MinItems 1)
MemberLists == UNION { [1..n -> Expressions] : n \in 1..MaxLen }

\* the new side of d.GetChange("members") when the resource is destroyed:
\* nothing, or one expression written in the same run
DestroyLists == {<<>>} \cup { <<e>> : e \in Expressions }

Range(s) == { s[i] : i \in 1..Len(s) }

\* the canonical identifiers a list of expressions resolves to
ResolvedIds(list) == { getUserInfo(list[i]).ID : i \in 1..Len(list) }


\* every order in which the remote may list the members of the conversation
Listings(S) ==
    { l \in [1..Cardinality(S) -> S] : \A i, j \in 1..Cardinality(S) : l[i] = l[j] => i = j }

\* sort.Strings
RECURSIVE Insert(_, _)
Insert(x, s) ==
    IF s = <<>> THEN <<x>>
    ELSE IF Rank(x) <= Rank(Head(s)) THEN <<x>> \o s
    ELSE <<Head(s)>> \o Insert(x, Tail(s))

RECURSIVE SortStrings(_)
SortStrings(s) == IF s = <<>> THEN <<>> ELSE Insert(Head(s), SortStrings(Tail(s)))

\* ------------------------------------------------------------- diff engine
\* The inner loop shared by the three diffs of the code:
\*     for i, m := range list { if m == x { break }
\*                              if i == len(list)-1 { append } }
\* TRUE when the loop reaches its append for x.
RECURSIVE ScanContinue(_, _, _)
ScanContinue(list, x, i) ==
    IF i > Len(list) THEN FALSE
    ELSE IF list[i] = x THEN ScanContinue(list, x, i + 1)
    ELSE IF i = Len(list) THEN TRUE
    ELSE ScanContinue(list, x, i + 1)

RECURSIVE ScanBreak(_, _, _)
ScanBreak(list, x, i) ==
    IF i > Len(list) THEN FALSE
    ELSE IF list[i] = x THEN FALSE
    ELSE IF i = Len(list) THEN TRUE
    ELSE ScanBreak(list, x, i + 1)

\* getUsersToKickAuthoritative: the listed members that are no managed user,
\* in the order of the listing.
getUsersToKickAuthoritativeContinue(conversationMembers, managedUsers) ==
    SelectSeq(conversationMembers, LAMBDA cmId : ScanContinue(managedUsers, cmId, 1))

getUsersToKickAuthoritativeLastManaged(conversationMembers, managedUsers) ==
    [i \in 1..Len(SelectSeq(conversationMembers,
                            LAMBDA cmId : ScanBreak(managedUsers, cmId, 1))) |->
        managedUsers[Len(managedUsers)]]

getUsersToKickAuthoritative(conversationMembers, managedUsers) ==
    SelectSeq(conversationMembers, LAMBDA cmId : ScanBreak(managedUsers, cmId, 1))

\* resourceConversationMembersUpdate, non-authoritative branch: the old
\* expressions equal to no new expression (reflect.DeepEqual), in order.
OldMembersToKickContinue(oldMembers, newMembers) ==
    SelectSeq(oldMembers, LAMBDA o : ScanContinue(newMembers, o, 1))

OldMembersToKick(oldMembers, newMembers) ==
    SelectSeq(oldMembers, LAMBDA o : ScanBreak(newMembers, o, 1))

\* the first resolution error of a list, "nil" when there is none
FirstErr(list) ==
    IF \A i \in 1..Len(list) : getUserInfo(list[i]).err = "nil" THEN "nil"
    ELSE LET k == CHOOSE i \in 1..Len(list) :
                    /\ getUserInfo(list[i]).err # "nil"
                    /\ \A j \in 1..(i - 1) : getUserInfo(list[j]).err = "nil"
         IN getUserInfo(list[k]).err

IdsOf(list) == [i \in 1..Len(list) |-> getUserInfo(list[i]).ID]

\* resourceConversationMembersDelete: old expressions, then the new ones
\* that are no old expression.
RECURSIVE AppendNew(_, _)
AppendNew(keys, new) ==
    IF new = <<>> THEN keys
    ELSE IF Head(new) \in Range(keys) THEN AppendNew(keys, Tail(new))
    ELSE AppendNew(Append(keys, Head(new)), Tail(new))

membersKeysOldOnly(oldUsers, newUsers) == oldUsers

membersKeys(oldUsers, newUsers) == AppendNew(oldUsers, newUsers)

\* ... of which the ones answered user_not_found are skipped
DeleteErr(keys) ==
    FirstErr(SelectSeq(keys, LAMBDA m : getUserInfo(m).err # "user_not_found"))

DeleteUsersToKick(keys) ==
    IdsOf(SelectSeq(keys, LAMBDA m : getUserInfo(m).err = "nil"))

\* ------------------------------------------------------------------- read
\* resourceConversationMembersRead, lines 624-667: the state it records.
presentOfAll(list, conversationMembers) == list

presentOf(list, conversationMembers) ==
    SelectSeq(list, LAMBDA m : getUserInfo(m).ID \in Range(conversationMembers))

intrudersOf(list, conversationMembers) ==
    SelectSeq(conversationMembers, LAMBDA cmId : ScanBreak(IdsOf(list), cmId, 1))

ReadMembers(list, conversationMembers, authoritative) ==
    presentOf(list, conversationMembers)
      \o (IF authoritative
          THEN [i \in 1..Len(intrudersOf(list, conversationMembers)) |->
                    Expr("id", intrudersOf(list, conversationMembers)[i])]
          ELSE <<>>)

ReadMembersIds(list, conversationMembers, authoritative) ==
    SortStrings(IdsOf(presentOf(list, conversationMembers)))
      \o (IF authoritative THEN intrudersOf(list, conversationMembers) ELSE <<>>)

\* ------------------------------------------------------------------ state
VARIABLES
    members,        \* remote: the ids of the members of the conversation
    isGeneral,      \* remote: the conversation is the workspace's #general
    exists,         \* remote: the conversation exists
    dId,            \* resource data: the resource id ("" = unset)
    stMembers,      \* resource data: "members" as last recorded by d.Set
    stIds,          \* resource data: "members_ids" as last recorded by d.Set
    stAuth,         \* resource data: "authoritative"
    verb,           \* the handler that runs or has just returned
    pc,             \* where the handler is
    ph,             \* the phase of the handler (index in Phases)
    cfg,            \* d.Get("members") of the running handler (the new list)
    old,            \* the old side of d.GetChange("members")
    auth,           \* d.Get("authoritative") of the running handler
    managedUsers,   \* the ids the new list resolves to, entry by entry
    usersToKick,    \* the ids handed to kickUsers
    snapshot,       \* the members listed to getUsersToKickAuthoritative
    idx,            \* loop index of inviteUsers / kickUsers
    log,            \* the remote mutation calls of the handler, in order
    result,         \* what the handler returned
    errUser,        \* the user the returned error message names ("" = none)
    startMembers,   \* the members when the handler started
    addStart,       \* the members when inviteUsers started
    repeat,         \* the handler repeats the one that has just returned
    declared,       \* every id the caller has ever named in a "members" list
    passes          \* number of handlers started

\* one call of getUserInfo on its own (specification SpecResolve)
VARIABLES
    rExpr,          \* the member expression handed to getUserInfo
    rListing,       \* what api.GetUsers() answers: the error and the users
    rOut,           \* what getUserInfo returned
    rCalls,         \* the directory lookups getUserInfo has made
    rPc             \* "call" before the call, then the version that ran

resolver == <<rExpr, rListing, rOut, rCalls, rPc>>

\* two authoritative Updates run by the host at the same time
\* (specification SpecRace)
VARIABLES
    qShared,        \* both Updates are for the same conversation
    qGeneral,       \* the conversations are #general ones
    qStart,         \* the members every conversation starts with
    qMembers,       \* remote: the members of each conversation
    qDesired,       \* d.Get("members") of each Update
    qSnap,          \* the members listed to each Update (lines 749-753)
    qKick,          \* usersToKick of each Update
    qIdx,           \* loop index of kickUsers / inviteUsers of each Update
    qPc,            \* where each Update is
    qResult,        \* what each Update returned
    qMeanwhile      \* the other Update has changed a conversation since the
                    \* members were listed to this one and before it returned

race == <<qShared, qGeneral, qStart, qMembers, qDesired, qSnap, qKick, qIdx, qPc,
          qResult, qMeanwhile>>
aside == <<resolver, race>>

remote == <<members, isGeneral, exists, removed>>
data   == <<dId, stMembers, stIds, stAuth>>
locals == <<verb, pc, ph, cfg, old, auth, managedUsers, usersToKick, snapshot,
            idx, log, result, errUser, startMembers, addStart, repeat>>
handler == <<remote, data, locals, declared, passes>>
vars   == <<handler, aside>>

\* no call of getUserInfo on its own
ResolverOff ==
    /\ rExpr = <<>>
    /\ rListing = [err |-> "nil", users |-> {}]
    /\ rOut = [err |-> "none", ID |-> "none"]
    /\ rCalls = <<>>
    /\ rPc = "off"

\* no handler runs and the resource has no state
HandlerIdle ==
    /\ exists = TRUE
    /\ dId = ""
    /\ stMembers = <<>>
    /\ stIds = <<>>
    /\ stAuth = FALSE
    /\ verb = "none"
    /\ pc = "idle"
    /\ ph = 0
    /\ cfg = <<>>
    /\ old = <<>>
    /\ auth = FALSE
    /\ managedUsers = <<>>
    /\ usersToKick = <<>>
    /\ snapshot = {}
    /\ idx = 0
    /\ log = <<>>
    /\ result = "none"
    /\ errUser = ""
    /\ startMembers = {}
    /\ addStart = {}
    /\ repeat = FALSE
    /\ declared = {}
    /\ passes = 0

Passes == {1, 2}

\* no two Updates at the same time
RaceOff ==
    /\ qShared = FALSE
    /\ qGeneral = FALSE
    /\ qStart = {}
    /\ qMembers = [c \in {"C1", "C2"} |-> {}]
    /\ qDesired = [p \in Passes |-> <<>>]
    /\ qSnap = [p \in Passes |-> <<>>]
    /\ qKick = [p \in Passes |-> <<>>]
    /\ qIdx = [p \in Passes |-> 0]
    /\ qPc = [p \in Passes |-> "off"]
    /\ qResult = [p \in Passes |-> "none"]
    /\ qMeanwhile = [p \in Passes |-> FALSE]

Init ==
    /\ removed = FALSE
    /\ members \in SUBSET UserIds
    /\ isGeneral \in BOOLEAN
    /\ ResolverOff
    /\ RaceOff
    /\ HandlerIdle

\* -------------------------------------------------------------- remote API
\* the answers of a call on a conversation that is gone
NotFound == {"channel_not_found", "conversation_not_found"}

\* the conversation may be deleted by somebody else right before a call of
\* kickUsers or of Read reaches the remote (never #general)
Vanishes == IF isGeneral THEN {} ELSE NotFound

\* conversations.invite for one user
InviteAnswers(u) ==
    IF ~exists THEN {"channel_not_found"}
    ELSE IF u \notin UserIds THEN {"user_not_found"}
    ELSE { IF u = TokenOwner THEN "cant_invite_self"
           ELSE IF u \in members THEN "already_in_channel"
           ELSE "ok",
           "fatal_error" }

\* conversations.join by the token owner
JoinAnswers == IF ~exists THEN {"channel_not_found"} ELSE { "ok", "fatal_error" }

\* conversations.kick for one user; the user Removable may have left the
\* workspace since the handler resolved it
KickAnswers(u) ==
    IF ~exists THEN NotFound
    ELSE IF u \notin UserIds THEN {"user_not_found"}
    ELSE (IF u = TokenOwner
          THEN (IF isGeneral THEN {"cant_kick_self", "cant_kick_from_general"}
                ELSE {"cant_kick_self"})
          ELSE IF isGeneral THEN {"cant_kick_from_general"}
          ELSE IF u \notin members THEN {"not_in_channel"}
          ELSE {"ok"})
         \cup {"fatal_error"}
         \cup Vanishes
         \cup (IF u = Removable THEN {"user_not_found"} ELSE {})

\* conversations.leave by the token owner
LeaveAnswers ==
    IF ~exists THEN {"channel_not_found"}
    ELSE IF isGeneral THEN {"cant_leave_general"}
    ELSE {"ok", "fatal_error"}

\* conversations.members (GetUsersInConversation) called by Read
ListAnswers == IF ~exists THEN {"channel_not_found"} ELSE {"ok"} \cup Vanishes

Call(op, u, ans) == [op |-> op, id |-> u, idx |-> idx, ans |-> ans]

\* the members of the conversation after the remote has answered the call c
MembersAfter(m, c) ==
    CASE c.ans \in NotFound                          -> {}
      [] c.ans = "user_not_found"                    -> m \ {c.id}
      [] c.ans = "ok" /\ c.op \in {"invite", "join"} -> m \cup {c.id}
      [] c.ans = "ok" /\ c.op \in {"kick", "leave"}  -> m \ {c.id}
      [] OTHER                                       -> m

\* what else the answer tells about the remote
Answered(ans) ==
    /\ exists' = (exists /\ ans \notin NotFound)
    /\ removed' = (removed \/ ans = "user_not_found")
    /\ UNCHANGED isGeneral

\* --------------------------------------------------------- handler phases
\* The order of the calls of each handler:
\*   Create: inviteUsers, [getUsersToKickAuthoritative, kickUsers], Read
\*   Update: users to kick, kickUsers, inviteUsers, Read
\*   Delete: kickUsers          Read: Read
PhasesInviteFirst(v, a) ==
    CASE v = "create" -> IF a THEN <<"invite", "plan", "read">> ELSE <<"invite", "read">>
      [] v = "update" -> <<"invite", "plan", "read">>
      [] v = "delete" -> <<"kick">>
      [] OTHER        -> <<"read">>

PhasesKickFirst(v, a) ==
    CASE v = "create" -> IF a THEN <<"plan", "invite", "read">> ELSE <<"invite", "read">>
      [] v = "update" -> <<"plan", "invite", "read">>
      [] v = "delete" -> <<"kick">>
      [] OTHER        -> <<"read">>

Phases(v, a) ==
    CASE v = "create" -> IF a THEN <<"invite", "plan", "read">> ELSE <<"invite", "read">>
      [] v = "update" -> <<"plan", "invite", "read">>
      [] v = "delete" -> <<"kick">>
      [] OTHER        -> <<"read">>

NextPc(v, a, p) == IF p + 1 > Len(Phases(v, a)) THEN "done" ELSE Phases(v, a)[p + 1]

\* the handler goes to newpc with the members m2
Step(newpc, newph, newidx, m2, res, who) ==
    /\ pc' = newpc
    /\ ph' = newph
    /\ idx' = newidx
    /\ members' = m2
    /\ result' = res
    /\ errUser' = who
    /\ addStart' = IF newpc = "invite" /\ pc \notin {"invite", "join"} THEN m2 ELSE addStart

StepTo(newpc, newph, newidx, m2, res) == Step(newpc, newph, newidx, m2, res, "")

\* the handler leaves its current phase
Advance(m2) ==
    StepTo(NextPc(verb, auth, ph), ph + 1, 1, m2,
           IF NextPc(verb, auth, ph) = "done" THEN "ok" ELSE result)

LoopNextRetry(looppc, len, m2) ==
    IF idx < len THEN StepTo(looppc, ph, idx + 1, m2, result)
    ELSE IF \A k \in 1..Len(log) : ~(log[k].op = looppc /\ log[k].idx = idx)
    THEN StepTo(looppc, ph, idx, m2, result)
    ELSE Advance(m2)

\* next iteration of the loop at looppc over a list of length len
LoopNext(looppc, len, m2) ==
    IF idx < len THEN StepTo(looppc, ph, idx + 1, m2, result) ELSE Advance(m2)

\* the handler returns an error that names no user
Fail(res) == StepTo("done", ph, idx, members, res)

\* the handler returns the error of a remote call, after which the members
\* are m2; the message names who
FailAtRollback(m2, who) == Step("done", ph, idx, startMembers, "error", who)

FailAt(m2, who) == Step("done", ph, idx, m2, "error", who)

\* ---------------------------------------------------------------- handlers
\* what every handler does when the host calls it
Enter(v, c, o, a, rep) ==
    /\ rep \/ passes < MaxPasses
    /\ passes' = IF rep THEN passes ELSE passes + 1
    /\ verb' = v
    /\ cfg' = c
    /\ old' = o
    /\ auth' = a
    /\ repeat' = rep
    /\ log' = <<>>
    /\ snapshot' = {}
    /\ startMembers' = members
    /\ UNCHANGED <<isGeneral, exists, removed, dId, stMembers, stIds>>
    /\ UNCHANGED aside

BeginCreateAuthoritative(c, a, rep) ==
    /\ Enter("create", c, <<>>, TRUE, rep)
    /\ stAuth' = a
    /\ declared' = declared \cup (ResolvedIds(c) \ {"none"})
    /\ usersToKick' = <<>>
    /\ IF ~exists \/ FirstErr(c) # "nil"
       THEN /\ managedUsers' = <<>>
            /\ StepTo("done", 0, 0, members, "error")
       ELSE /\ managedUsers' = IdsOf(c)
            /\ StepTo(Phases("create", TRUE)[1], 1, 1, members, "none")

\* resourceConversationMembersCreate, lines 678-692: the conversation is
\* looked up and every expression resolved before the first invite.
BeginCreate(c, a, rep) ==
    /\ Enter("create", c, <<>>, a, rep)
    /\ stAuth' = a
    /\ declared' = declared \cup (ResolvedIds(c) \ {"none"})
    /\ usersToKick' = <<>>
    /\ IF ~exists \/ FirstErr(c) # "nil"
       THEN /\ managedUsers' = <<>>
            /\ StepTo("done", 0, 0, members, "error")
       ELSE /\ managedUsers' = IdsOf(c)
            /\ StepTo(Phases("create", a)[1], 1, 1, members, "none")

\* resourceConversationMembersUpdate, lines 713-728
BeginUpdate(c, a, rep) ==
    /\ Enter("update", c, stMembers, a, rep)
    /\ stAuth' = a
    /\ declared' = declared \cup (ResolvedIds(c) \ {"none"})
    /\ usersToKick' = <<>>
    /\ IF ~exists \/ FirstErr(c) # "nil"
       THEN /\ managedUsers' = <<>>
            /\ StepTo("done", 0, 0, members, "error")
       ELSE /\ managedUsers' = IdsOf(c)
            /\ StepTo(Phases("update", a)[1], 1, 1, members, "none")

\* resourceConversationMembersDelete, lines 767-803
BeginDelete(c, rep) ==
    /\ Enter("delete", c, stMembers, stAuth, rep)
    /\ UNCHANGED <<stAuth, declared>>
    /\ managedUsers' = <<>>
    /\ IF ~exists \/ DeleteErr(membersKeys(stMembers, c)) # "nil"
       THEN /\ usersToKick' = <<>>
            /\ StepTo("done", 0, 0, members, "error")
       ELSE /\ usersToKick' = DeleteUsersToKick(membersKeys(stMembers, c))
            /\ IF DeleteUsersToKick(membersKeys(stMembers, c)) = <<>>
               THEN StepTo("done", 1, 1, members, "ok")
               ELSE StepTo("kick", 1, 1, members, "none")

BeginReadKicks(rep) ==
    /\ Enter("read", stMembers, stMembers, stAuth, rep)
    /\ UNCHANGED <<stAuth, declared>>
    /\ managedUsers' = <<>>
    /\ usersToKick' = DeleteUsersToKick(stMembers)
    /\ IF DeleteUsersToKick(stMembers) = <<>>
       THEN StepTo("read", 1, 1, members, "none")
       ELSE StepTo("kick", 1, 1, members, "none")

\* resourceConversationMembersRead called by the host (refresh)
BeginRead(rep) ==
    /\ Enter("read", stMembers, stMembers, stAuth, rep)
    /\ UNCHANGED <<stAuth, declared>>
    /\ managedUsers' = <<>>
    /\ usersToKick' = <<>>
    /\ StepTo("read", 1, 1, members, "none")

Create ==
    /\ pc = "idle"
    /\ dId = ""
    /\ \E c \in MemberLists, a \in BOOLEAN : BeginCreate(c, a, FALSE)

Update ==
    /\ pc = "idle"
    /\ dId # ""
    /\ \E c \in MemberLists, a \in BOOLEAN : BeginUpdate(c, a, FALSE)

Delete ==
    /\ pc = "idle"
    /\ dId # ""
    /\ \E c \in DestroyLists : BeginDelete(c, FALSE)

Read ==
    /\ pc = "idle"
    /\ dId # ""
    /\ BeginRead(FALSE)

\* the host calls the handler that has just returned nil once more, with
\* the same configuration and what that handler recorded
Repeat ==
    /\ pc = "done"
    /\ result = "ok"
    /\ ~repeat
    /\ CASE verb = "create" -> BeginCreate(cfg, auth, TRUE)
         [] verb = "update" -> BeginUpdate(cfg, auth, TRUE)
         [] verb = "delete" -> BeginDelete(cfg, TRUE)
         [] OTHER           -> BeginRead(TRUE)

\* inviteUsers, line 588: the users the loop invites are all the managed
\* users (the filter on the current members, lines 564-583, is commented out)
InviteListMissing(managed, conversationMembers) ==
    SelectSeq(managed, LAMBDA mu : mu \notin conversationMembers)

InviteList(managed, conversationMembers) == managed

\* inviteUsers, lines 590-601: what the loop does with the answer of an invite
InviteSwitchNoJoin(ans) ==
    CASE ans = "ok"                 -> "next"
      [] ans = "cant_invite_self"   -> "next"
      [] ans = "already_in_channel" -> "next"
      [] OTHER                      -> "fail"

InviteSwitchAlreadyFatal(ans) ==
    CASE ans = "ok"                 -> "next"
      [] ans = "cant_invite_self"   -> "join"
      [] OTHER                      -> "fail"

InviteSwitchOkFatal(ans) ==
    CASE ans = "cant_invite_self"   -> "join"
      [] ans = "already_in_channel" -> "next"
      [] OTHER                      -> "fail"

InviteSwitch(ans) ==
    CASE ans = "ok"                 -> "next"
      [] ans = "cant_invite_self"   -> "join"
      [] ans = "already_in_channel" -> "next"
      [] OTHER                      -> "fail"

\* kickUsers, lines 536-556: what the loop does with the answer of a kick
KickSwitchGeneralFatal(ans) ==
    CASE ans = "ok"                     -> "next"
      [] ans = "cant_kick_self"         -> "leave"
      [] ans = "not_in_channel"         -> "next"
      [] ans = "user_not_found"         -> "next"
      [] ans = "channel_not_found"      -> "next"
      [] OTHER                          -> "fail"

KickSwitchNoLeave(ans) ==
    CASE ans = "ok"                     -> "next"
      [] ans = "cant_kick_self"         -> "next"
      [] ans = "not_in_channel"         -> "next"
      [] ans = "user_not_found"         -> "next"
      [] ans = "channel_not_found"      -> "next"
      [] ans = "cant_kick_from_general" -> "next"
      [] OTHER                          -> "fail"

KickSwitchAbsorbAll(ans) ==
    CASE ans = "cant_kick_self"         -> "leave"
      [] OTHER                          -> "next"

KickSwitch(ans) ==
    CASE ans = "ok"                     -> "next"
      [] ans = "cant_kick_self"         -> "leave"
      [] ans = "not_in_channel"         -> "next"
      [] ans = "user_not_found"         -> "next"
      [] ans = "channel_not_found"      -> "next"
      [] ans = "cant_kick_from_general" -> "next"
      [] OTHER                          -> "fail"

\* join / leave, lines 538-541 and 592-596: what the loop does with the
\* answer of the call that stands in for an invite or a kick of the owner
FallbackSwitchIgnore(ans) == "next"

FallbackSwitch(ans) == IF ans = "ok" THEN "next" ELSE "fail"

\* Read, lines 609-613: what Read does with the answer of GetConversationInfo
ReadLookup(found) == IF found THEN "list" ELSE "absent"

\* Read, lines 615-622: ... with the answer of GetUsersInConversation
ReadListing(ans) == IF ans = "ok" THEN "record" ELSE "fail"

SetIdAtOnce == dId' = IF verb = "create" THEN "C-members" ELSE dId

\* Create, lines 705-709: d.SetId when inviteUsers (and, authoritative,
\* kickUsers) has returned nil, before Read is called
SetId == dId' = IF verb = "create" /\ pc' = "read" THEN "C-members" ELSE dId

\* inviteUsers, lines 588-603: one InviteUsersToConversation call; the error
\* message of line 600 names u.ID
InviteCall ==
    /\ pc = "invite"
    /\ LET list == InviteList(managedUsers, addStart) IN
       IF list = <<>>
       THEN log' = log /\ Advance(members) /\ UNCHANGED <<exists, removed, isGeneral>>
       ELSE \E ans \in InviteAnswers(list[idx]) :
              LET c == Call("invite", list[idx], ans) IN
              /\ log' = Append(log, c)
              /\ Answered(ans)
              /\ CASE InviteSwitch(ans) = "next" ->
                        LoopNext("invite", Len(list), MembersAfter(members, c))
                   [] InviteSwitch(ans) = "join" ->
                        StepTo("join", ph, idx, MembersAfter(members, c), result)
                   [] OTHER -> FailAt(MembersAfter(members, c), list[idx])
    /\ SetId
    /\ UNCHANGED <<stMembers, stIds, stAuth, verb, cfg, old, auth, managedUsers,
                   usersToKick, snapshot, startMembers, repeat, declared, passes>>
    /\ UNCHANGED aside

\* inviteUsers, lines 592-596: JoinConversation after cant_invite_self; the
\* error message of line 594 names no user
JoinCall ==
    /\ pc = "join"
    /\ \E ans \in JoinAnswers :
         LET c == Call("join", TokenOwner, ans) IN
         /\ log' = Append(log, c)
         /\ Answered(ans)
         /\ IF FallbackSwitch(ans) = "next"
            THEN LoopNext("invite", Len(InviteList(managedUsers, addStart)),
                          MembersAfter(members, c))
            ELSE FailAt(MembersAfter(members, c), "")
    /\ SetId
    /\ UNCHANGED <<stMembers, stIds, stAuth, verb, cfg, old, auth, managedUsers,
                   usersToKick, snapshot, startMembers, repeat, declared, passes>>
    /\ UNCHANGED aside

\* the users to kick: getUsersToKickAuthoritative (lines 503-530) under
\* authoritative, the old members that are no new member (lines 730-747)
\* otherwise; kickUsers is entered when there is a user to kick.
PlanKick ==
    /\ pc = "plan"
    /\ \E snap \in (IF auth THEN Listings(members) ELSE {<<>>}) :
         LET toKick == IF auth THEN getUsersToKickAuthoritative(snap, managedUsers)
                       ELSE IdsOf(OldMembersToKick(old, cfg))
             err == IF auth THEN (IF exists THEN "nil" ELSE "channel_not_found")
                    ELSE FirstErr(OldMembersToKick(old, cfg))
         IN /\ snapshot' = Range(snap)
            /\ IF err # "nil"
               THEN usersToKick' = usersToKick /\ Fail("error")
               ELSE /\ usersToKick' = toKick
                    /\ IF toKick = <<>> THEN Advance(members)
                       ELSE StepTo("kick", ph, 1, members, result)
    /\ SetId
    /\ UNCHANGED <<isGeneral, exists, removed, stMembers, stIds, stAuth, verb, cfg, old,
                   auth, managedUsers, log, startMembers, repeat, declared, passes>>
    /\ UNCHANGED aside

\* kickUsers, lines 533-558: one KickUserFromConversation call; the error
\* message of line 555 names u.Name
KickCall ==
    /\ pc = "kick"
    /\ \E ans \in KickAnswers(usersToKick[idx]) :
         LET c == Call("kick", usersToKick[idx], ans) IN
         /\ log' = Append(log, c)
         /\ Answered(ans)
         /\ CASE KickSwitch(ans) = "next" ->
                   LoopNext("kick", Len(usersToKick), MembersAfter(members, c))
              [] KickSwitch(ans) = "leave" ->
                   StepTo("leave", ph, idx, MembersAfter(members, c), result)
              [] OTHER -> FailAt(MembersAfter(members, c), NameOf(usersToKick[idx]))
    /\ SetId
    /\ UNCHANGED <<stMembers, stIds, stAuth, verb, cfg, old, auth, managedUsers,
                   usersToKick, snapshot, startMembers, repeat, declared, passes>>
    /\ UNCHANGED aside

\* kickUsers, lines 538-541: LeaveConversation after cant_kick_self; the
\* error message of line 539 names no user
LeaveCall ==
    /\ pc = "leave"
    /\ \E ans \in LeaveAnswers :
         LET c == Call("leave", TokenOwner, ans) IN
         /\ log' = Append(log, c)
         /\ Answered(ans)
         /\ IF FallbackSwitch(ans) = "next"
            THEN LoopNext("kick", Len(usersToKick), MembersAfter(members, c))
            ELSE FailAt(MembersAfter(members, c), "")
    /\ SetId
    /\ UNCHANGED <<stMembers, stIds, stAuth, verb, cfg, old, auth, managedUsers,
                   usersToKick, snapshot, startMembers, repeat, declared, passes>>
    /\ UNCHANGED aside

\* resourceConversationMembersRead, lines 607-676 (Create sets the id right
\* before it calls Read, lines 706-710).  The error of getUserInfo is dropped
\* (line 631): the nil user is dereferenced as soon as the listing has a
\* member to compare it with (line 634), and the provider panics.
ReadState ==
    /\ pc = "read"
    /\ CASE ReadLookup(exists) = "absent" ->
              /\ dId' = ""
              /\ UNCHANGED <<stMembers, stIds, exists, removed, isGeneral>>
              /\ StepTo("done", ph, idx, members, "ok")
         [] OTHER ->
              \E ans \in ListAnswers :
                /\ Answered(ans)
                /\ IF ReadListing(ans) = "fail"
                   THEN /\ UNCHANGED <<dId, stMembers, stIds>>
                        /\ FailAt({}, "")
                   ELSE \E snap \in Listings(members) :
                          IF FirstErr(cfg) # "nil" /\ snap # <<>>
                          THEN /\ UNCHANGED <<dId, stMembers, stIds>>
                               /\ StepTo("done", ph, idx, members, "panic")
                          ELSE /\ dId' = dId
                               /\ stMembers' = ReadMembers(cfg, snap, auth)
                               /\ stIds' = ReadMembersIds(cfg, snap, auth)
                               /\ StepTo("done", ph, idx, members, "ok")
    /\ UNCHANGED <<stAuth, verb, cfg, old, auth, managedUsers,
                   usersToKick, snapshot, log, startMembers, repeat, declared, passes>>
    /\ UNCHANGED aside

\* The handler has returned to the host, which drops the state of a resource
\* that was deleted or whose id was cleared, and keeps the resource of a
\* Create that has set the id and then returned an error, with the "members"
\* of its configuration.
Return ==
    /\ pc = "done"
    /\ pc' = "idle"
    /\ verb' = "none"
    /\ ph' = 0
    /\ cfg' = <<>>
    /\ old' = <<>>
    /\ auth' = FALSE
    /\ managedUsers' = <<>>
    /\ usersToKick' = <<>>
    /\ snapshot' = {}
    /\ idx' = 0
    /\ log' = <<>>
    /\ result' = "none"
    /\ errUser' = ""
    /\ startMembers' = {}
    /\ addStart' = {}
    /\ repeat' = FALSE
    /\ IF (verb = "delete" /\ result = "ok") \/ dId = ""
          \/ (verb = "create" /\ result = "panic")
       THEN dId' = "" /\ stMembers' = <<>> /\ stIds' = <<>>
       ELSE IF verb = "create" /\ result # "ok"
       THEN dId' = dId /\ stMembers' = cfg /\ stIds' = <<>>
       ELSE UNCHANGED <<dId, stMembers, stIds>>
    /\ UNCHANGED <<remote, stAuth, declared, passes>>
    /\ UNCHANGED aside

\* ------------------------------------------------------------ environment
\* between two handlers somebody else changes the conversation
ExternalJoin ==
    /\ pc = "idle"
    /\ exists
    /\ \E u \in UserIds \ members : members' = members \cup {u}
    /\ UNCHANGED <<isGeneral, exists, removed, data, locals, declared, passes>>
    /\ UNCHANGED aside

ExternalLeave ==
    /\ pc = "idle"
    /\ exists
    /\ ~isGeneral
    /\ \E u \in members : members' = members \ {u}
    /\ UNCHANGED <<isGeneral, exists, removed, data, locals, declared, passes>>
    /\ UNCHANGED aside

ConversationDeleted ==
    /\ pc = "idle"
    /\ exists
    /\ ~isGeneral
    /\ exists' = FALSE
    /\ members' = {}
    /\ UNCHANGED <<isGeneral, removed, data, locals, declared, passes>>
    /\ UNCHANGED aside

\* the user Removable leaves the workspace, and so every conversation
UserRemoved ==
    /\ pc = "idle"
    /\ ~removed
    /\ removed' = TRUE
    /\ members' = members \ {Removable}
    /\ UNCHANGED <<isGeneral, exists, data, locals, declared, passes>>
    /\ UNCHANGED aside

Next ==
    \/ Create
    \/ Update
    \/ Delete
    \/ Read
    \/ Repeat
    \/ InviteCall
    \/ JoinCall
    \/ PlanKick
    \/ KickCall
    \/ LeaveCall
    \/ ReadState
    \/ Return
    \/ ExternalJoin
    \/ ExternalLeave
    \/ ConversationDeleted
    \/ UserRemoved

Spec == Init /\ [][Next]_vars

\* A handler is one sequential Go function: once called it runs on, every
\* remote call returning an answer, until it returns.
HandlerStep ==
    \/ InviteCall
    \/ JoinCall
    \/ PlanKick
    \/ KickCall
    \/ LeaveCall
    \/ ReadState

HandlerRuns == WF_vars(HandlerStep)

\* the list of the resource the host has created before
LiveList == << Expr("id", "U1"), Expr("id", "U3") >>

\* The states in which the host calls one more handler: the conversation is
\* empty or holds every user, and there is no resource yet or there is the
\* resource of LiveList, its state being what Read records of these members.
InitLive ==
    /\ removed = FALSE
    /\ members \in { {}, UserIds }
    /\ isGeneral \in BOOLEAN
    /\ ResolverOff
    /\ RaceOff
    /\ exists = TRUE
    /\ stAuth \in BOOLEAN
    /\ \/ dId = "" /\ stMembers = <<>> /\ stIds = <<>> /\ stAuth = FALSE
       \/ /\ dId = "C-members"
          /\ \E snap \in Listings(members) :
               /\ stMembers = ReadMembers(LiveList, snap, stAuth)
               /\ stIds = ReadMembersIds(LiveList, snap, stAuth)
    /\ verb = "none"
    /\ pc = "idle"
    /\ ph = 0
    /\ cfg = <<>>
    /\ old = <<>>
    /\ auth = FALSE
    /\ managedUsers = <<>>
    /\ usersToKick = <<>>
    /\ snapshot = {}
    /\ idx = 0
    /\ log = <<>>
    /\ result = "none"
    /\ errUser = ""
    /\ startMembers = {}
    /\ addStart = {}
    /\ repeat = FALSE
    /\ declared = {}
    /\ passes = MaxPasses - 1

\* one handler called by the host, and its steps up to its return
NextLive ==
    \/ Create
    \/ Update
    \/ Delete
    \/ Read
    \/ HandlerStep

SpecLive == InitLive /\ [][NextLive]_vars /\ HandlerRuns

\* ------------------------------------------------ a sequence of Reads
\* The resource as a Create that returned nil has left it: the conversation
\* holds at least the users of the list, and the state is what the Read at
\* the end of Create has recorded of them.
InitRead ==
    /\ removed = FALSE
    /\ isGeneral \in BOOLEAN
    /\ ResolverOff
    /\ RaceOff
    /\ exists = TRUE
    /\ dId = "C-members"
    /\ stAuth \in BOOLEAN
    /\ \E c \in MemberLists :
         /\ FirstErr(c) = "nil"
         /\ members \in { m \in SUBSET UserIds : ResolvedIds(c) \subseteq m }
         /\ \E snap \in Listings(members) :
              /\ stMembers = ReadMembers(c, snap, stAuth)
              /\ stIds = ReadMembersIds(c, snap, stAuth)
         /\ declared = ResolvedIds(c)
    /\ verb = "none"
    /\ pc = "idle"
    /\ ph = 0
    /\ cfg = <<>>
    /\ old = <<>>
    /\ auth = FALSE
    /\ managedUsers = <<>>
    /\ usersToKick = <<>>
    /\ snapshot = {}
    /\ idx = 0
    /\ log = <<>>
    /\ result = "none"
    /\ errUser = ""
    /\ startMembers = {}
    /\ addStart = {}
    /\ repeat = FALSE
    /\ passes = 0

\* the host refreshes the resource, users join and leave in between
NextRead ==
    \/ Read
    \/ ReadState
    \/ Return
    \/ ExternalJoin
    \/ ExternalLeave

SpecRead == InitRead /\ [][NextRead]_vars

\* ------------------------------------------------- getUserInfo on its own
\* the pieces a member expression is written with
Pieces == { "id", "email", "bot", ":", "U1", "a@x", "b1" }

\* every string of at most MaxPieces pieces, the empty string included
Strings == UNION { [1..n -> Pieces] : n \in 0..MaxPieces }

\* the bot users of the workspace
Bots == { [ID |-> "B1", Name |-> "b1"] }

\* users.list: every user of the workspace with its IsBot flag
ListedUsers ==
    { [ID |-> u.ID, Name |-> u.Name, IsBot |-> FALSE] : u \in Directory }
        \cup { [ID |-> b.ID, Name |-> b.Name, IsBot |-> TRUE] : b \in Bots }

\* api.GetUsers(): all users and no error, or an error with the users of the
\* pages read before it
GetUsersAnswers ==
    { [err |-> "nil", users |-> ListedUsers] }
        \cup { [err |-> "fatal_error", users |-> us] : us \in SUBSET ListedUsers }

\* getUserInfo of the version that knows 'bot:*' expressions
\* (lines 49-74).  The loop over the listed users runs when GetUsers has
\* returned an error; when it has returned none the else branch returns
\* (nil, err) with err == nil: no user and no error.
getUserInfoBot(userExpression, listing) ==
    LET parts == SplitAfter(userExpression, <<>>) IN
    IF Len(parts) < 2 THEN [err |-> "panic", ID |-> "none"]
    ELSE IF Contains(userExpression, "email") THEN getUserByEmail(parts[2])
    ELSE IF Contains(userExpression, "id") THEN GetUserInfo(parts[2])
    ELSE IF Contains(userExpression, "bot")
    THEN IF listing.err # "nil"
         THEN LET hit == { u \in listing.users : u.IsBot /\ <<u.Name>> = parts[2] }
              IN IF hit # {}
                 THEN [err |-> "nil", ID |-> (CHOOSE u \in hit : TRUE).ID]
                 ELSE [err |-> "unsupported", ID |-> "none"]
         ELSE [err |-> "nil", ID |-> "none"]
    ELSE [err |-> "unsupported", ID |-> "none"]

\* the directory lookups getUserInfo (lines 492-501) makes for an expression
getUserInfoCalls(userExpression) ==
    LET parts == SplitAfter(userExpression, <<>>) IN
    IF Len(parts) < 2 THEN <<>>
    ELSE IF Contains(userExpression, "email") THEN <<"users.lookupByEmail">>
    ELSE IF Contains(userExpression, "id") THEN <<"users.info">>
    ELSE <<>>

InitResolve ==
    /\ removed \in BOOLEAN
    /\ members = {}
    /\ isGeneral = FALSE
    /\ HandlerIdle
    /\ rExpr \in Strings
    /\ rListing \in GetUsersAnswers
    /\ rOut = [err |-> "none", ID |-> "none"]
    /\ rCalls = <<>>
    /\ rPc = "call"
    /\ RaceOff

\* getUserInfo of the head version is called with rExpr
ResolveHead ==
    /\ rPc = "call"
    /\ rOut' = getUserInfo(rExpr)
    /\ rCalls' = getUserInfoCalls(rExpr)
    /\ rPc' = "head"
    /\ UNCHANGED <<rExpr, rListing, handler, race>>

\* getUserInfo of the version with 'bot:*' is called with rExpr
ResolveBot ==
    /\ rPc = "call"
    /\ rOut' = getUserInfoBot(rExpr, rListing)
    /\ rCalls' = <<>>
    /\ rPc' = "bot"
    /\ UNCHANGED <<rExpr, rListing, handler, race>>

NextResolve ==
    \/ ResolveHead
    \/ ResolveBot

SpecResolve == InitResolve /\ [][NextResolve]_vars

\* ---------------------------------------------- two Updates at the same time
Convs == {"C1", "C2"}

\* the conversation_id of each Update
ConvOfSame(p) == "C1"

ConvOf(p) == IF qShared \/ p = 1 THEN "C1" ELSE "C2"

\* the "members" lists of the two Updates: 'id:*' expressions that resolve
RaceLists ==
    { l \in MemberLists : FirstErr(l) = "nil" /\ \A i \in 1..Len(l) : l[i][1] = "id" }

\* What the remote answers when no call fails for a reason of its own.
KickAnswer(m, g, u) ==
    IF u = TokenOwner THEN "cant_kick_self"
    ELSE IF g THEN "cant_kick_from_general"
    ELSE IF u \notin m THEN "not_in_channel"
    ELSE "ok"

LeaveAnswer(g) == IF g THEN "cant_leave_general" ELSE "ok"

InviteAnswer(m, u) ==
    IF u = TokenOwner THEN "cant_invite_self"
    ELSE IF u \in m THEN "already_in_channel"
    ELSE "ok"

JoinAnswer == "ok"

\* kickUsers, lines 533-560, run from its first to its last call on a
\* conversation with the members m that nobody else touches
RECURSIVE kickUsers(_, _, _)
kickUsers(m, g, users) ==
    IF users = <<>> THEN [members |-> m, err |-> "nil"]
    ELSE LET u == Head(users)
             ans == KickAnswer(m, g, u)
             left == LeaveAnswer(g)
         IN CASE KickSwitch(ans) = "next" ->
                   kickUsers(MembersAfter(m, [op |-> "kick", id |-> u, ans |-> ans]),
                             g, Tail(users))
              [] KickSwitch(ans) = "leave" /\ FallbackSwitch(left) = "next" ->
                   kickUsers(MembersAfter(m, [op |-> "leave", id |-> u, ans |-> left]),
                             g, Tail(users))
              [] OTHER -> [members |-> m, err |-> "error"]

\* inviteUsers, lines 563-605, likewise
RECURSIVE inviteUsers(_, _)
inviteUsers(m, users) ==
    IF users = <<>> THEN [members |-> m, err |-> "nil"]
    ELSE LET u == Head(users)
             ans == InviteAnswer(m, u)
         IN CASE InviteSwitch(ans) = "next" ->
                   inviteUsers(MembersAfter(m, [op |-> "invite", id |-> u, ans |-> ans]),
                               Tail(users))
              [] InviteSwitch(ans) = "join" /\ FallbackSwitch(JoinAnswer) = "next" ->
                   inviteUsers(MembersAfter(m, [op |-> "join", id |-> u, ans |-> JoinAnswer]),
                               Tail(users))
              [] OTHER -> [members |-> m, err |-> "error"]

\* resourceConversationMembersUpdate under authoritative policy, lines
\* 748-764, run alone on a conversation with the members m, which are listed
\* to it in the order of listing: the members it leaves and what it returns
UpdateAlone(m, g, list, listing) ==
    LET kicked == kickUsers(m, g, getUsersToKickAuthoritative(listing, IdsOf(list)))
        invited == inviteUsers(kicked.members, IdsOf(list))
    IN IF kicked.err # "nil" THEN [members |-> kicked.members, result |-> "error"]
       ELSE IF invited.err # "nil" THEN [members |-> invited.members, result |-> "error"]
       ELSE [members |-> invited.members, result |-> "ok"]

InitRace ==
    /\ removed = FALSE
    /\ members = {}
    /\ isGeneral = FALSE
    /\ HandlerIdle
    /\ ResolverOff
    /\ qShared \in BOOLEAN
    /\ qGeneral \in BOOLEAN
    /\ qStart \in SUBSET UserIds
    /\ qMembers = [c \in Convs |-> qStart]
    /\ qDesired \in [Passes -> RaceLists]
    /\ qSnap = [p \in Passes |-> <<>>]
    /\ qKick = [p \in Passes |-> <<>>]
    /\ qIdx = [p \in Passes |-> 1]
    /\ qPc = [p \in Passes |-> "plan"]
    /\ qResult = [p \in Passes |-> "none"]
    /\ qMeanwhile = [p \in Passes |-> FALSE]

\* the Update p goes to newpc after a remote call that leaves the members m2
\* in its conversation
RaceStep(p, m2, newpc, newidx, res) ==
    /\ qMembers' = [qMembers EXCEPT ![ConvOf(p)] = m2]
    /\ qPc' = [qPc EXCEPT ![p] = newpc]
    /\ qIdx' = [qIdx EXCEPT ![p] = newidx]
    /\ qResult' = [qResult EXCEPT ![p] = res]
    /\ qMeanwhile' = [q \in Passes |->
                        \/ qMeanwhile[q]
                        \/ /\ q # p
                           /\ m2 # qMembers[ConvOf(p)]
                           /\ qPc[q] \notin {"plan", "done"}]
    /\ UNCHANGED <<qShared, qGeneral, qStart, qDesired, handler, resolver>>

\* next iteration of the loop at looppc of the Update p, or the step after it
RaceLoopNext(p, m2, looppc, len, after) ==
    IF qIdx[p] < len THEN RaceStep(p, m2, looppc, qIdx[p] + 1, "none")
    ELSE RaceStep(p, m2, after, 1, "none")

RaceFail(p, m2) == RaceStep(p, m2, "done", qIdx[p], "error")

\* Update, lines 749-754: GetUsersInConversation and getUsersToKickAuthoritative
RacePlan(p) ==
    /\ qPc[p] = "plan"
    /\ \E snap \in Listings(qMembers[ConvOf(p)]) :
         LET toKick == getUsersToKickAuthoritative(snap, IdsOf(qDesired[p])) IN
         /\ qSnap' = [qSnap EXCEPT ![p] = snap]
         /\ qKick' = [qKick EXCEPT ![p] = toKick]
         /\ RaceStep(p, qMembers[ConvOf(p)], IF toKick = <<>> THEN "invite" ELSE "kick",
                     1, "none")

\* kickUsers, lines 533-558: one KickUserFromConversation call
RaceKick(p) ==
    /\ qPc[p] = "kick"
    /\ LET m == qMembers[ConvOf(p)]
           u == qKick[p][qIdx[p]]
           ans == KickAnswer(m, qGeneral, u)
           m2 == MembersAfter(m, [op |-> "kick", id |-> u, ans |-> ans])
       IN CASE KickSwitch(ans) = "next" -> RaceLoopNext(p, m2, "kick", Len(qKick[p]), "invite")
            [] KickSwitch(ans) = "leave" -> RaceStep(p, m2, "leave", qIdx[p], "none")
            [] OTHER -> RaceFail(p, m2)
    /\ UNCHANGED <<qSnap, qKick>>

\* kickUsers, lines 538-541: LeaveConversation after cant_kick_self
RaceLeave(p) ==
    /\ qPc[p] = "leave"
    /\ LET m == qMembers[ConvOf(p)]
           ans == LeaveAnswer(qGeneral)
           m2 == MembersAfter(m, [op |-> "leave", id |-> TokenOwner, ans |-> ans])
       IN IF FallbackSwitch(ans) = "next"
          THEN RaceLoopNext(p, m2, "kick", Len(qKick[p]), "invite")
          ELSE RaceFail(p, m2)
    /\ UNCHANGED <<qSnap, qKick>>

\* inviteUsers, lines 588-603: one InviteUsersToConversation call
RaceInvite(p) ==
    /\ qPc[p] = "invite"
    /\ LET m == qMembers[ConvOf(p)]
           u == IdsOf(qDesired[p])[qIdx[p]]
           ans == InviteAnswer(m, u)
           m2 == MembersAfter(m, [op |-> "invite", id |-> u, ans |-> ans])
       IN CASE InviteSwitch(ans) = "next" ->
                 RaceLoopNext(p, m2, "invite", Len(qDesired[p]), "read")
            [] InviteSwitch(ans) = "join" -> RaceStep(p, m2, "join", qIdx[p], "none")
            [] OTHER -> RaceFail(p, m2)
    /\ UNCHANGED <<qSnap, qKick>>

\* inviteUsers, lines 592-596: JoinConversation after cant_invite_self
RaceJoin(p) ==
    /\ qPc[p] = "join"
    /\ LET m == qMembers[ConvOf(p)]
           m2 == MembersAfter(m, [op |-> "join", id |-> TokenOwner, ans |-> JoinAnswer])
       IN IF FallbackSwitch(JoinAnswer) = "next"
          THEN RaceLoopNext(p, m2, "invite", Len(qDesired[p]), "read")
          ELSE RaceFail(p, m2)
    /\ UNCHANGED <<qSnap, qKick>>

\* Update, line 764, and Read, lines 607-623: the members are listed again
\* and Update returns nil
RaceRead(p) ==
    /\ qPc[p] = "read"
    /\ RaceStep(p, qMembers[ConvOf(p)], "done", qIdx[p], "ok")
    /\ UNCHANGED <<qSnap, qKick>>

NextRace ==
    \/ \E p \in Passes : RacePlan(p)
    \/ \E p \in Passes : RaceKick(p)
    \/ \E p \in Passes : RaceLeave(p)
    \/ \E p \in Passes : RaceInvite(p)
    \/ \E p \in Passes : RaceJoin(p)
    \/ \E p \in Passes : RaceRead(p)

SpecRace == InitRace /\ [][NextRace]_vars

\* ------------------------------------------------------------- properties
\* the handler has returned nil
Returned(v) == pc = "done" /\ result = "ok" /\ verb = v

\* nobody else has changed the remote while the handler ran: the
\* conversation is still there and no user left the workspace under a call
Undisturbed == exists /\ \A k \in 1..Len(log) : log[k].ans # "user_not_found"

\* the positions of the log that hold a call of one of the operations ops
Calls(ops) == { k \in 1..Len(log) : log[k].op \in ops }

\* the ids a remove call of the handler could not remove from #general
Stuck == { log[k].id : k \in { j \in Calls({"kick"}) : log[j].ans = "cant_kick_from_general" } }

\* the ids the handler has issued an invite call for
Tried == { log[k].id : k \in Calls({"invite"}) }

\* the ids the invite phase has made members
Added ==
    { log[k].id : k \in { j \in Calls({"invite", "join"}) : log[j].ans = "ok" } } \ addStart

C2_AdditiveKicksOnlyDeclared ==
    (verb = "update" /\ ~auth) => Range(usersToKick) \subseteq declared

\* C3: after Update has returned nil, under either policy, every id the new
\* desired list resolves to is a member, also when the previous list named
\* the same user by another expression.
C3_DesiredAreMembers ==
    Returned("update") => ResolvedIds(cfg) \subseteq members

C3_Witness ==
    /\ Returned("update")
    /\ ~auth
    /\ \E i \in 1..Len(old), j \in 1..Len(cfg) :
          /\ old[i] \notin Range(cfg)
          /\ getUserInfo(old[i]).ID = getUserInfo(cfg[j]).ID
          /\ \E k \in Calls({"kick"}) : log[k].id = getUserInfo(old[i]).ID /\ log[k].ans = "ok"

\* C4 (as stated): under authoritative policy the token owner is never
\* handed to kickUsers, and an owner who was a member is still one when
\* Create or Update has returned nil.
C4_OwnerNeverKicked ==
    (verb \in {"create", "update"} /\ auth)
        => /\ TokenOwner \notin Range(usersToKick)
           /\ (pc = "done" /\ result = "ok" /\ TokenOwner \in startMembers)
                 => TokenOwner \in members

\* C5: a handler that repeats the handler that has just returned nil, with
\* the same configuration, changes no membership: no invite and no kick of
\* it is answered ok, and the members stay what they were at its start
\* (as long as nobody else changes the remote meanwhile).
C5_RepeatChangesNothing ==
    repeat => /\ Undisturbed => members = startMembers
              /\ \A k \in Calls({"invite", "kick"}) : log[k].ans # "ok"

C5_Witness ==
    /\ repeat
    /\ Returned("update")
    /\ auth
    /\ Calls({"invite"}) # {}
    /\ Calls({"kick"}) # {}

Planned == pc \in {"kick", "leave"} \/ (pc = "done" /\ result = "ok")

\* C8 (as stated): under additive policy the users handed to kickUsers are
\* the ids the previous list resolves to minus the ids the new list
\* resolves to.
C8_AdditiveRemoveSet ==
    (verb = "update" /\ ~auth /\ Planned)
        => Range(usersToKick) = ResolvedIds(old) \ ResolvedIds(cfg)

\* add calls and remove calls
IsAdd(k) == log[k].op \in {"invite", "join"}
IsRemove(k) == log[k].op \in {"kick", "leave"}

\* C9 (as stated): every add call of a handler comes before every remove
\* call of it, and a user who is to be added and to be removed and was a
\* member at the start is a member in every state of the pass.
C9_AddsBeforeRemoves ==
    (verb \in {"create", "update"})
        => /\ \A i, j \in 1..Len(log) : (IsAdd(i) /\ IsRemove(j)) => i < j
           /\ \A u \in (Range(managedUsers) \cap Range(usersToKick)) \cap startMembers :
                 u \in members

\* C9 (amended): in Create every add call comes before every remove call;
\* in Update every remove call comes before every add call, so a user who is
\* to be removed and to be added is removed first and added again: it is a
\* member when Update returns nil.
C9_OrderPerVerb ==
    /\ verb = "create" => \A i, j \in 1..Len(log) : (IsAdd(i) /\ IsRemove(j)) => i < j
    /\ verb = "update" => \A i, j \in 1..Len(log) : (IsRemove(i) /\ IsAdd(j)) => i < j
    /\ Returned("update")
          => \A u \in Range(managedUsers) \cap Range(usersToKick) : u \in members

C9_Witness ==
    /\ Returned("update")
    /\ \E u \in Range(managedUsers) \cap Range(usersToKick) :
          /\ u \in startMembers
          /\ \E i, j \in 1..Len(log) :
                /\ i < j
                /\ log[i] = [op |-> "kick", id |-> u, idx |-> log[i].idx, ans |-> "ok"]
                /\ log[j] = [op |-> "invite", id |-> u, idx |-> log[j].idx, ans |-> "ok"]

\* the handler is past the join that answers the invite at position k
PastJoin(k) == k < Len(log) \/ pc # "join"

\* C10 (as stated): when an invite is answered cant_invite_self, the handler
\* calls JoinConversation exactly once in the pass and issues no further
\* invite for that id in the pass.
C10_OneJoinPerId ==
    \A k \in Calls({"invite"}) :
        (log[k].ans = "cant_invite_self" /\ pc = "done")
            => /\ Cardinality(Calls({"join"})) = 1
               /\ Cardinality({ j \in Calls({"invite"}) : log[j].id = log[k].id }) = 1

\* C10 (amended): when the invite for an entry of the desired list is
\* answered cant_invite_self, the handler calls JoinConversation exactly
\* once for that entry, right after the invite, issues no further invite for
\* that entry, and goes on with the next entry; an id named by several
\* entries gets one invite and one join per entry.
C10_OneJoinPerEntry ==
    \A k \in Calls({"invite"}) :
        (log[k].ans = "cant_invite_self" /\ PastJoin(k))
            => /\ k < Len(log)
               /\ log[k + 1].op = "join"
               /\ log[k + 1].idx = log[k].idx
               /\ Cardinality({ j \in Calls({"join"}) : log[j].idx = log[k].idx }) = 1
               /\ Cardinality({ j \in Calls({"invite"}) : log[j].idx = log[k].idx }) = 1
               /\ (log[k + 1].ans = "ok" /\ log[k].idx < Len(managedUsers))
                     => IF k + 1 < Len(log)
                        THEN log[k + 2].op = "invite" /\ log[k + 2].idx = log[k].idx + 1
                        ELSE pc = "invite" /\ idx = log[k].idx + 1

C10_Witness ==
    /\ pc = "done"
    /\ \E k \in Calls({"invite"}) :
          /\ log[k].ans = "cant_invite_self"
          /\ log[k].idx = 1
          /\ k + 2 <= Len(log)
          /\ log[k + 2].op = "invite"
          /\ log[k + 2].id # TokenOwner

\* the handler has returned an error from inviteUsers (phase "invite") or
\* from kickUsers (phase "plan" of Create and Update, "kick" of Delete)
FailedIn(phases) ==
    /\ pc = "done"
    /\ result = "error"
    /\ ph \in 1..Len(Phases(verb, auth))
    /\ Phases(verb, auth)[ph] \in phases

PhasesOf(op) == IF op \in {"invite", "join"} THEN {"invite"} ELSE {"plan", "kick"}

\* the handler has returned the error of the call at position k
ErrorFor(k) == k = Len(log) /\ FailedIn(PhasesOf(log[k].op))

NoErrorFor(k) == ~ErrorFor(k)

\* after the call at position k the loop of op goes on with its next entry,
\* when the list of length len has one
GoesOn(k, op, len) ==
    log[k].idx < len
        => IF k < Len(log)
           THEN log[k + 1].op = op /\ log[k + 1].idx = log[k].idx + 1
           ELSE pc = op /\ idx = log[k].idx + 1

\* C11 (as stated): when a kick of a user is answered not_in_channel, the
\* handler does not return an error for it, and the user is not in the
\* members_ids that Create or Update records before it returns nil.
C11_NotInChannelNotRecorded ==
    \A k \in Calls({"kick"}) :
        log[k].ans = "not_in_channel"
            => /\ NoErrorFor(k)
               /\ (Returned("create") \/ Returned("update"))
                     => log[k].id \notin Range(stIds)

C13_NotFoundMeansAbsent ==
    (verb = "read" /\ pc = "done")
        => IF exists THEN result = "ok" /\ dId # ""
           ELSE result = "ok" /\ dId = ""

\* sorted ascending, as sort.Strings sorts
Sorted(ids) == \A i, j \in 1..Len(ids) : i < j => Rank(ids[i]) <= Rank(ids[j])

\* Read has recorded "members" and "members_ids" and the handler returned nil
Recorded ==
    /\ pc = "done"
    /\ result = "ok"
    /\ verb \in {"create", "update", "read"}
    /\ exists

\* C14 (as stated): the members_ids that Read records are sorted ascending,
\* under both policies, whatever the order of the desired list and of the
\* listing.
C14_MembersIdsSorted == Recorded => Sorted(stIds)

\* the expressions of the desired list whose user is a member, in order
StillPresent == SelectSeq(cfg, LAMBDA e : getUserInfo(e).ID \in members)

\* C15 (as stated): the members that Read records are exactly the
\* expressions of the desired list whose user is a member, in their order;
\* no expression the caller did not write is recorded.
C15_OnlyCallerExpressions == Recorded => stMembers = StillPresent

\* C15 (amended): the members that Read records start with the expressions
\* of the desired list whose user is a member, in their order; under
\* additive policy nothing follows; under authoritative policy one "id:"
\* expression follows for every member that no desired expression resolves
\* to, and nothing else (nothing at all when the desired list is empty:
\* the loop over the managed users, lines 647-658, has no iteration).
C15_PresentThenIntruders ==
    Recorded
        => LET n == Len(StillPresent)
               others == IF cfg = <<>> THEN {} ELSE members \ ResolvedIds(cfg)
           IN /\ Len(stMembers) >= n
              /\ SubSeq(stMembers, 1, n) = StillPresent
              /\ ~auth => Len(stMembers) = n
              /\ auth => /\ { stMembers[i] : i \in (n + 1)..Len(stMembers) }
                              = { Expr("id", u) : u \in others }
                         /\ Len(stMembers) - n = Cardinality(others)

C15_Witness ==
    /\ Recorded
    /\ verb = "read"
    /\ auth
    /\ Len(StillPresent) < Len(cfg)
    /\ StillPresent # <<>>
    /\ Len(stMembers) > Len(StillPresent)

\* the expressions the handler resolves before its first remote call
Resolves == IF verb = "delete" THEN membersKeys(old, cfg) ELSE cfg

\* C16 (as stated): when an expression a handler resolves does not resolve
\* (user not found, unsupported kind), the handler returns an error and
\* issues no call for the other expressions.
C16_ResolutionErrorsFatal ==
    (pc = "done" /\ FirstErr(Resolves) # "nil"
                /\ \A k \in 1..Len(log) : log[k].ans # "user_not_found")
        => result = "error" /\ log = <<>>

\* the answers inviteUsers and kickUsers have a case for
Handled(op) ==
    IF op = "invite" THEN {"ok", "cant_invite_self", "already_in_channel"}
    ELSE {"ok", "cant_kick_self", "not_in_channel", "user_not_found",
          "channel_not_found", "cant_kick_from_general"}

\* C17 (as stated): an invite or a kick answered with any other error ends
\* the handler at once: it is the last call of the pass, the handler returns
\* an error, and the error names the id of the user of that call.
C17_FatalNamesId ==
    \A k \in Calls({"invite", "kick"}) :
        log[k].ans \notin Handled(log[k].op)
            => ErrorFor(k) /\ errUser = log[k].id

\* C17 (amended): an invite or a kick answered with any other error ends the
\* handler at once: it is the last call of the pass and the handler returns
\* an error; the error of an invite names the id of the user, the error of
\* a kick names the user by its name.
C17_FatalAborts ==
    \A k \in Calls({"invite", "kick"}) :
        log[k].ans \notin Handled(log[k].op)
            => /\ ErrorFor(k)
               /\ errUser = IF log[k].op = "invite" THEN log[k].id ELSE NameOf(log[k].id)

C17_Witness ==
    /\ pc = "done"
    /\ result = "error"
    /\ Len(log) >= 2
    /\ log[Len(log)].op = "kick"
    /\ log[Len(log)].ans = "fatal_error"
    /\ log[Len(log)].idx < Len(usersToKick)
    /\ errUser = NameOf(usersToKick[idx])

\* the members after the remote calls of a log, from the members m
RECURSIVE Replay(_, _)
Replay(m, l) == IF l = <<>> THEN m ELSE Replay(MembersAfter(m, Head(l)), Tail(l))

\* C18: when a handler returns the error of a remote call, the changes of
\* its earlier calls stay: the members are the ones its calls have left,
\* and it has issued no call to undo one (every call is the one call of an
\* entry of the managed users or of the users to kick, taken in order).
C18_NoRollback ==
    (log # <<>> /\ ErrorFor(Len(log)))
        => /\ members = Replay(startMembers, log)
           /\ \A k \in Calls({"invite"}) : log[k].id = managedUsers[log[k].idx]
           /\ \A k \in Calls({"kick"}) : log[k].id = usersToKick[log[k].idx]
           /\ \A i, j \in 1..Len(log) :
                 (i < j /\ log[i].op = log[j].op) => log[i].idx < log[j].idx

C18_Witness ==
    /\ log # <<>>
    /\ ErrorFor(Len(log))
    /\ log[Len(log)].ans = "fatal_error"
    /\ \E k \in Calls({"invite"}) : log[k].ans = "ok"
    /\ \E k \in Calls({"kick"}) : log[k].ans = "ok"
    /\ members # startMembers

\* the handler is past the leave that answers the kick at position k
PastLeave(k) == k < Len(log) \/ pc # "leave"

\* C19: when a kick is answered cant_kick_self, kickUsers calls
\* LeaveConversation exactly once for it, right after the kick, and then
\* goes on with the next user to kick.
C19_OneLeaveThenGoesOn ==
    \A k \in Calls({"kick"}) :
        (log[k].ans = "cant_kick_self" /\ PastLeave(k))
            => /\ k < Len(log)
               /\ log[k + 1].op = "leave"
               /\ log[k + 1].idx = log[k].idx
               /\ Cardinality({ j \in Calls({"leave"}) : log[j].idx = log[k].idx }) = 1
               /\ log[k + 1].ans = "ok" => GoesOn(k + 1, "kick", Len(usersToKick))

C19_Witness ==
    \E k \in Calls({"kick"}) :
        /\ log[k].ans = "cant_kick_self"
        /\ k + 2 <= Len(log)
        /\ log[k + 1].ans = "ok"
        /\ log[k + 2].op = "kick"
        /\ log[k + 2].ans = "ok"

\* C20: when the JoinConversation that follows cant_invite_self, or the
\* LeaveConversation that follows cant_kick_self, fails, the handler returns
\* an error and that call is the last call of the pass.
C20_FallbackFailureAborts ==
    \A k \in Calls({"join", "leave"}) : log[k].ans # "ok" => ErrorFor(k)

C20_Witness ==
    /\ pc = "done"
    /\ result = "error"
    /\ log # <<>>
    /\ log[Len(log)].op = "leave"
    /\ log[Len(log)].ans # "ok"
    /\ log[Len(log)].idx < Len(usersToKick)
    /\ members # {}

\* C21: an invite answered already_in_channel is absorbed: no error is
\* returned for it, no JoinConversation follows it, and inviteUsers goes on
\* with the next managed user.
C21_AlreadyInChannelAbsorbed ==
    \A k \in Calls({"invite"}) :
        log[k].ans = "already_in_channel"
            => /\ NoErrorFor(k)
               /\ IF k < Len(log) THEN log[k + 1].op # "join" ELSE pc # "join"
               /\ GoesOn(k, "invite", Len(managedUsers))

C21_Witness ==
    /\ Len(log) >= 2
    /\ log[1].op = "invite"
    /\ log[1].ans = "already_in_channel"
    /\ log[2].op = "invite"
    /\ log[2].idx = 2
    /\ Returned("create")

\* C22 (as stated): Update and Delete called for a conversation that no
\* longer exists return nil.
C22_GoneConversationNoFailure ==
    (pc = "done" /\ verb \in {"update", "delete"} /\ ~exists /\ ph = 0)
        => result = "ok"

\* the ids of the kick calls of a log, in order
KicksOf(l) ==
    LET ks == SelectSeq(l, LAMBDA c : c.op = "kick")
    IN [i \in 1..Len(ks) |-> ks[i].id]

Resolvable(e) == getUserInfo(e).err = "nil"

\* the ids Delete has to remove: what the old and the new list resolve to
DeleteIds == (ResolvedIds(old) \cup ResolvedIds(cfg)) \ {"none"}

\* C23 (as stated): Delete issues a kick for every id that the old and the
\* new list resolve to, one for each distinct expression, and when it has
\* returned nil none of these ids is a member, except the ids whose kick was
\* answered cant_kick_from_general.
C23_DeleteKicksDistinct ==
    (Returned("delete") /\ Undisturbed)
        => /\ Range(KicksOf(log)) = DeleteIds
           /\ Len(KicksOf(log))
                 = Cardinality({ e \in Range(old) \cup Range(cfg) : Resolvable(e) })
           /\ \A u \in DeleteIds \ Stuck : u \notin members

\* C23 (amended): Delete issues a kick for every id that the old and the
\* new list resolve to: one for each entry of the old list (an expression
\* recorded twice is kicked twice) and one for each distinct new expression
\* that is no old one; when it has returned nil none of these ids is a
\* member, except the ids whose kick was answered cant_kick_from_general.
C23_DeleteKicksUnion ==
    Returned("delete")
        => /\ KicksOf(log) = usersToKick
           /\ \A u \in Range(usersToKick) \ Stuck : u \notin members
           /\ Undisturbed
                 => /\ Range(usersToKick) = DeleteIds
                    /\ Len(usersToKick)
                          = Len(SelectSeq(old, Resolvable))
                            + Cardinality({ e \in Range(cfg) \ Range(old) : Resolvable(e) })

C23_Witness ==
    /\ Returned("delete")
    /\ Undisturbed
    /\ cfg # <<>>
    /\ ResolvedIds(cfg) \cap ResolvedIds(old) = {}
    /\ Len(usersToKick) = 2
    /\ \A k \in Calls({"kick"}) : log[k].ans \in {"ok", "cant_kick_self"}
    /\ members = {}

C27_ReadChangesNothing ==
    verb = "read"
        => /\ log = <<>>
           /\ pc \in {"read", "done"}
           /\ exists => members = startMembers

C27_Witness ==
    /\ Returned("read")
    /\ auth
    /\ dId # ""
    /\ members \ ResolvedIds(cfg) # {}
    /\ ResolvedIds(cfg) \ (members \cup {"none"}) # {}

\* C28: a Create whose configuration has authoritative = false issues no kick
\* and no leave call and lists no members to compute users to kick, so that
\* every member the conversation had when Create was called is still a member
\* (as long as nobody else removes one); a Create that has users to kick is
\* authoritative and has computed them from the listed members.
C28_AdditiveCreateKeepsMembers ==
    verb = "create"
        => /\ ~stAuth
                 => /\ Calls({"kick", "leave"}) = {}
                    /\ usersToKick = <<>>
                    /\ snapshot = {}
                    /\ pc \notin {"plan", "kick", "leave"}
                    /\ Undisturbed => startMembers \subseteq members
           /\ usersToKick # <<>>
                 => /\ stAuth
                    /\ Range(usersToKick) = snapshot \ ResolvedIds(cfg)

C28_Witness ==
    /\ Returned("create")
    /\ ~stAuth
    /\ Undisturbed
    /\ startMembers \ ResolvedIds(cfg) # {}
    /\ \E k \in Calls({"invite"}) : log[k].ans = "ok"

\* the parts of a member expression: what stands before its first
\* separator and what stands after it
HasSeparator(e) == \E i \in 1..Len(e) : e[i] = ":"

FirstSeparator(e) == CHOOSE i \in 1..Len(e) : e[i] = ":" /\ \A j \in 1..(i - 1) : e[j] # ":"

KindOf(e) == SubSeq(e, 1, FirstSeparator(e) - 1)

IdentifierOf(e) == SubSeq(e, FirstSeparator(e) + 1, Len(e))

\* C25 (as stated): when the listing of the users succeeds, getUserInfo of a
\* 'bot:<name>' expression returns the listed bot whose name is <name>, and
\* an error when no bot has that name; it never returns neither a user nor an
\* error.
C25_BotResolved ==
    (/\ rPc = "bot"
     /\ HasSeparator(rExpr)
     /\ KindOf(rExpr) = <<"bot">>
     /\ IdentifierOf(rExpr) # <<>>
     /\ ~HasSeparator(IdentifierOf(rExpr))
     /\ rListing.err = "nil")
        => LET named == { u \in ListedUsers : u.IsBot /\ <<u.Name>> = IdentifierOf(rExpr) }
           IN /\ named # {} => rOut.err = "nil" /\ rOut.ID \in { u.ID : u \in named }
              /\ named = {} => rOut.err \notin {"nil", "panic"}
              /\ ~(rOut.err = "nil" /\ rOut.ID = "none")

\* C26 (as stated): getUserInfo of an expression that has no separator, or
\* whose kind is none of id, email and bot, or whose identifier is empty,
\* returns the "only ... member expressions are supported" error and makes no
\* directory lookup.
C26_IllFormedUnsupported ==
    (/\ rPc = "head"
     /\ \/ ~HasSeparator(rExpr)
        \/ KindOf(rExpr) \notin { <<"id">>, <<"email">>, <<"bot">> }
        \/ IdentifierOf(rExpr) = <<>>)
        => rOut.err = "unsupported" /\ rCalls = <<>>

\* what the Update p leaves and returns when it runs alone on its conversation
AloneOutcome(p) == UpdateAlone(qStart, qGeneral, qDesired[p], qSnap[p])

\* C29: when the two Updates are for different conversations, each of them,
\* however their remote calls interleave, leaves its conversation with the
\* members and returns the result of the same
\* Update run alone from the same start.
C29_DifferentConversationsIndependent ==
    ~qShared
        => \A p \in Passes :
              /\ qPc[p] # "plan" => Range(qSnap[p]) = qStart
              /\ qPc[p] = "done"
                    => /\ qMembers[ConvOf(p)] = AloneOutcome(p).members
                       /\ qResult[p] = AloneOutcome(p).result

C29_Witness ==
    /\ ~qShared
    /\ \A p \in Passes :
          /\ qPc[p] = "done"
          /\ qResult[p] = "ok"
          /\ qMeanwhile[p]
          /\ qStart \ ResolvedIds(qDesired[p]) # {}
    /\ qMembers["C1"] # qMembers["C2"]

\* the set an Update wants the conversation to have
DesiredSet(p) == ResolvedIds(qDesired[p])

BothReturnedNil == \A p \in Passes : qPc[p] = "done" /\ qResult[p] = "ok"

\* C30: when the two Updates are for the same conversation, each computes
\* its users to kick from the members listed to it, whatever the other has
\* done since; when both have returned nil, the members are (outside
\* #general) between the intersection and the union of the two desired sets,
\* and they are the desired set of one of the two when neither Update had
\* the conversation changed under it.
C30_SameConversationRace ==
    qShared
        => /\ \A p \in Passes :
                 qPc[p] # "plan" => Range(qKick[p]) = Range(qSnap[p]) \ DesiredSet(p)
           /\ (BothReturnedNil /\ ~qGeneral)
                 => /\ DesiredSet(1) \cap DesiredSet(2) \subseteq qMembers["C1"]
                    /\ qMembers["C1"] \subseteq DesiredSet(1) \cup DesiredSet(2)
                    /\ (\A p \in Passes : ~qMeanwhile[p])
                          => qMembers["C1"] \in { DesiredSet(1), DesiredSet(2) }

\* the race: both Updates have returned nil, each had the conversation
\* changed by the other after the members were listed to it, and the members
\* are the desired set of neither
C30_Witness ==
    /\ qShared
    /\ BothReturnedNil
    /\ \A p \in Passes : qMeanwhile[p]
    /\ \E p \in Passes : qKick[p] # <<>>
    /\ DesiredSet(1) # DesiredSet(2)
    /\ qMembers["C1"] \notin { DesiredSet(1), DesiredSet(2) }

\* the calls of the handler are one per entry: no two invite calls and no two
\* kick calls for the same entry of their list, every join right after an
\* invite answered cant_invite_self and every leave right after a kick
\* answered cant_kick_self, for the same entry
OneCallPerEntry ==
    /\ \A j, k \in Calls({"invite"}) : log[j].idx = log[k].idx => j = k
    /\ \A j, k \in Calls({"kick"}) : log[j].idx = log[k].idx => j = k
    /\ \A k \in Calls({"invite"}) : log[k].idx \in 1..Len(managedUsers)
    /\ \A k \in Calls({"kick"}) : log[k].idx \in 1..Len(usersToKick)
    /\ \A k \in Calls({"join"}) :
          /\ k > 1
          /\ log[k - 1].op = "invite"
          /\ log[k - 1].ans = "cant_invite_self"
          /\ log[k - 1].idx = log[k].idx
    /\ \A k \in Calls({"leave"}) :
          /\ k > 1
          /\ log[k - 1].op = "kick"
          /\ log[k - 1].ans = "cant_kick_self"
          /\ log[k - 1].idx = log[k].idx

\* C31: a handler that has been called returns, whatever the remote answers,
\* and on its way it issues at most one invite per managed user entry, one
\* join per cant_invite_self answer, one kick per entry of the users to kick
\* and one leave per cant_kick_self answer.
C31_TerminatesWithoutRetry ==
    /\ []OneCallPerEntry
    /\ (pc \notin {"idle", "done"}) ~> (pc = "done")

C31_Witness ==
    /\ Returned("update")
    /\ Calls({"kick"}) # {}
    /\ Calls({"join"}) # {}
    /\ Cardinality(Calls({"invite"})) = 2

\* C34 (as stated): a Create that returns an error leaves the resource id
\* unset.
C34_AbortLeavesIdUnset ==
    (verb = "create" /\ ~repeat /\ pc = "done" /\ result # "ok") => dId = ""

\* C34 (amended): Create sets the resource id only when every invite call
\* (and, authoritative, every kick call) is over and none has made it return:
\* the id is unset while Create invites and kicks and when Create returns an
\* error from there; the id is set when Create returns the error of the Read
\* it ends with.
C34_IdSetAfterMutations ==
    (verb = "create" /\ ~repeat)
        => /\ pc \in {"invite", "join", "plan", "kick", "leave"} => dId = ""
           /\ (pc = "done" /\ result # "ok" /\ FailedIn({"invite", "plan", "kick"}))
                 => dId = ""
           /\ (pc = "done" /\ result # "ok" /\ FailedIn({"read"})) => dId # ""
           /\ dId # "" => pc \in {"read", "done"} /\ \A k \in 1..Len(log) : NoErrorFor(k)

C34_Witness ==
    /\ verb = "create"
    /\ ~repeat
    /\ pc = "done"
    /\ result = "error"
    /\ FailedIn({"invite", "plan", "kick"})
    /\ dId = ""
    /\ exists
    /\ startMembers \subseteq members
    /\ members # startMembers

\* the old expressions an additive Update resolves
OldToResolve == IF verb = "update" /\ ~auth THEN OldMembersToKick(old, cfg) ELSE <<>>

\* Create or Update has returned the error of a getUserInfo call: of the loop
\* over the new list, or of the additive diff over the old one
ResolutionFailed ==
    /\ verb \in {"create", "update"}
    /\ pc = "done"
    /\ result = "error"
    /\ \/ ph = 0 /\ exists /\ FirstErr(cfg) # "nil"
       \/ /\ ph \in 1..Len(Phases(verb, auth))
          /\ Phases(verb, auth)[ph] = "plan"
          /\ usersToKick = <<>>
          /\ FirstErr(OldToResolve) # "nil"

\* C32: in Create and Update every getUserInfo call comes before the first
\* invite, join, kick or leave call: a handler that has issued a call has
\* resolved the new list and, additive, the old expressions it kicks, and a
\* handler that returns a resolution error has issued no call and leaves the
\* members as they were.
C32_ResolvedBeforeFirstCall ==
    /\ (verb \in {"create", "update"} /\ log # <<>> /\ Undisturbed)
          => FirstErr(cfg) = "nil" /\ FirstErr(OldToResolve) = "nil"
    /\ ResolutionFailed => log = <<>> /\ members = startMembers

C32_Witness ==
    /\ ResolutionFailed
    /\ verb = "update"
    /\ ph = 1
    /\ FirstErr(cfg) = "nil"
    /\ ResolvedIds(cfg) \ members # {}
    /\ members # {}

\* C33 (as stated): an authoritative Read that finds the conversation and
\* returns nil records as members_ids exactly the members of the
\* conversation, and reports every member that the last-known list does not
\* resolve to with an 'id:' expression, whatever Reads came before.
C33_ReadRecordsAllMembers ==
    (Returned("read") /\ auth /\ exists /\ dId # "")
        => /\ Range(stIds) = members
           /\ \A u \in members \ ResolvedIds(cfg) :
                 /\ u \in Range(stIds)
                 /\ Expr("id", u) \in Range(stMembers)
====
